---- MODULE Spec2Model ----
(***************************************************************************)
(* Model of the travel matching engine (src/matcher.py, TravelMatcher) and *)
(* of its caller (src/app.py).                                             *)
(*                                                                         *)
(* Python dicts are functions whose DOMAIN is the set of keys present, so  *)
(* d.get(k, default) and the KeyError of d[k] are both expressible.        *)
(* Tag lists are only ever read through set(...), so they are sets.        *)
(* Scores are floats with integer values (every weight is 1.0), so they    *)
(* are integers.  A per-user match_percentage is the float                 *)
(* user_score / user_max * 100; it is kept as the exact fraction           *)
(* [num, den] and compared by cross multiplication.  The f-string reasons  *)
(* are records [kind, tags, a, b] holding the interpolated values.         *)
(* The 'consensus' and 'cons' entries of the score details are derived     *)
(* texts that no property reads; they are left out of the details record.  *)
(* In src/matcher.py the line 'def __init__' stands at module level, so    *)
(* the methods below it are written as functions nested in it; the model   *)
(* takes them as the methods of TravelMatcher that their 'self' parameter  *)
(* and their callers in src/app.py make them.                              *)
(***************************************************************************)
EXTENDS Integers, Sequences, FiniteSets, TLC

VARIABLES regions, users_preferences, geographic_scope, trip_type,
          eligible_regions, result, outcome,
          cities, region_id, call, previous_call,
          TRIPS, response, requests

\* the state of the Flask application of src/app.py
appvars == <<TRIPS, response, requests>>

\* call names the method of the engine that is called; previous_call holds
\* the catalog, the arguments and the result of the call before it, if any
vars == <<regions, users_preferences, geographic_scope, trip_type,
          eligible_regions, result, outcome, cities, region_id,
          call, previous_call, appvars>>

(***************************************************************************)
(* Bounds of the model.                                                    *)
(***************************************************************************)
MaxRegions == 8
MaxUsers == 2
MaxCities == 7

(***************************************************************************)
(* Program constants.                                                      *)
(***************************************************************************)
TopRegions == 7
BudgetFlex == 50

(***************************************************************************)
(* Dict helpers.                                                           *)
(***************************************************************************)
EmptyDict == [k \in {} |-> 0]

Get(d, k, default) == IF k \in DOMAIN d THEN d[k] ELSE default

\* the dicts that hold key k with one of the values vals, or do not hold k
Optional(k, vals) == {EmptyDict} \cup {k :> v : v \in vals}

Reason(kind, tags, a, b) == [kind |-> kind, tags |-> tags, a |-> a, b |-> b]

Kinds(reasons) == {reasons[i].kind : i \in 1..Len(reasons)}

SeqsUpTo(S, n) == UNION {[1..k -> S] : k \in 0..n}

Min(a, b) == IF a <= b THEN a ELSE b

\* round(x, 1) of the fraction num/den (den > 0), as a number of tenths;
\* ties go to the even tenth
Round1(num, den) ==
    LET n == num * 10
        q == n \div den
        r == n - q * den
    IN  IF 2 * r < den THEN q
        ELSE IF 2 * r > den THEN q + 1
        ELSE IF q % 2 = 0 THEN q ELSE q + 1

\* the first user (the organizer) weighted double on a friends_adventure trip
get_user_weights_organizer(users, tt) ==
    [i \in 1..Len(users) |-> IF tt = "friends_adventure" /\ i = 1 THEN 2 ELSE 1]

(***************************************************************************)
(* TravelMatcher._get_user_weights: equal weights 1.0, whatever trip_type. *)
(***************************************************************************)
get_user_weights(users, tt) == [i \in 1..Len(users) |-> 1]

\* str.lower() with spaces replaced by hyphens, on the strings of the model
Lower(str) ==
    CASE str = "Europe" -> "europe"
      [] str = "Beach" -> "beach"
      [] str = "Anywhere" -> "anywhere"
      [] OTHER -> str

\* the labels with the Good-for threshold at 50
get_sentiment_50(match_pct) ==
    IF match_pct.num >= 85 * match_pct.den THEN "Perfect for"
    ELSE IF match_pct.num >= 70 * match_pct.den THEN "Great for"
    ELSE IF match_pct.num >= 50 * match_pct.den THEN "Good for"
    ELSE "Compromise for"

(***************************************************************************)
(* TravelMatcher._get_sentiment on the fraction pct = num/den (den > 0).   *)
(* fl(fl(r)*100) >= t agrees with the exact comparison for t = 85, 70, 55  *)
(* (0.85*100 = 85.0, 0.7*100 = 70.0, 0.55*100 = 55.00000000000001).        *)
(***************************************************************************)
get_sentiment(match_pct) ==
    IF match_pct.num >= 85 * match_pct.den THEN "Perfect for"
    ELSE IF match_pct.num >= 70 * match_pct.den THEN "Great for"
    ELSE IF match_pct.num >= 55 * match_pct.den THEN "Good for"
    ELSE "Compromise for"

\* the veto without the $50 flexibility
budget_veto_strict(region_budget_max, budget_max) ==
    region_budget_max > budget_max

\* line 96: the user cannot afford the region (budget veto)
budget_veto(region_budget_max, budget_max) ==
    region_budget_max > budget_max + BudgetFlex

\* the weight of an activity tag raised by 2, to the weight 5
ActivityPoints5 == 3 + 2

\* points per matching activity tag (line 139)
ActivityPoints == 3

\* f'User {i+1}' for the 0-based index i = idx - 1
DefaultUserName(idx) ==
    <<"User 1", "User 2", "User 3", "User 4", "User 5", "User 6">>[idx]

FamilyTrips == {"family_with_kids", "family_without_kids"}

(***************************************************************************)
(* One iteration of the loop of _score_region (lines 85-196) for the user  *)
(* at 1-based position idx.  Requires 'budget_range' in DOMAIN region.     *)
(***************************************************************************)
score_region_user(region, user_prefs, idx, user_weight, tt) ==
    LET budget_max == Get(user_prefs, "budget_range", <<0, 1000>>)[2]
        region_budget_max == region["budget_range"][2]
        veto == budget_veto(region_budget_max, budget_max)
        \* 1. budget
        s1 == IF veto THEN 0 - 20 * user_weight ELSE 0
        m1 == IF veto THEN 20 * user_weight ELSE 0
        r1 == IF veto THEN << >> ELSE <<Reason("Within budget", {}, 0, 0)>>
        x1 == IF veto
              THEN <<Reason("Above budget", {}, region_budget_max, budget_max)>>
              ELSE << >>
        \* 2. environment
        user_envs == Get(user_prefs, "environment", {})
        env_matches == user_envs \cap Get(region, "environment", {})
        s2 == s1 + Cardinality(env_matches) * 10 * user_weight
        m2 == m1 + Cardinality(user_envs) * 10 * user_weight
        r2 == IF env_matches # {}
              THEN Append(r1, Reason("Environment", env_matches, 0, 0)) ELSE r1
        x2 == IF env_matches # {} THEN x1
              ELSE Append(x1, Reason("Environment mismatch", user_envs, 0, 0))
        \* 3. style
        user_styles == Get(user_prefs, "style", {})
        style_matches == user_styles \cap Get(region, "style", {})
        s3 == s2 + Cardinality(style_matches) * 8 * user_weight
        m3 == m2 + Cardinality(user_styles) * 8 * user_weight
        r3 == IF style_matches # {}
              THEN Append(r2, Reason("Style", style_matches, 0, 0)) ELSE r2
        x3 == IF style_matches # {} THEN x2
              ELSE Append(x2, Reason("Style mismatch", user_styles, 0, 0))
        \* 4. activities
        user_activities == Get(user_prefs, "activities", {})
        activity_matches == user_activities \cap Get(region, "activities", {})
        s4 == s3 + Cardinality(activity_matches) * ActivityPoints * user_weight
        m4 == m3 + Cardinality(user_activities) * ActivityPoints * user_weight
        r4 == IF activity_matches # {}
              THEN Append(r3, Reason("activities available", {},
                                     Cardinality(activity_matches), 0))
              ELSE r3
        \* 5. climate
        climate_match == /\ "climate" \in DOMAIN user_prefs
                         /\ "climate" \in DOMAIN region
                         /\ user_prefs["climate"] # ""
                         /\ user_prefs["climate"] = region["climate"]
        s5 == IF climate_match THEN s4 + 2 * user_weight ELSE s4
        m5 == m4 + 2 * user_weight
        r5 == IF climate_match
              THEN Append(r4, Reason("Climate", {region["climate"]}, 0, 0))
              ELSE r4
        \* 6. nightlife, family friendly, culture
        party == "party" \in user_styles
        nightlife == party /\ Get(region, "nightlife_score", 0) >= 4
        s6 == IF nightlife THEN s5 + 3 * user_weight ELSE s5
        m6 == IF party THEN m5 + 5 * user_weight ELSE m5
        r6 == IF nightlife
              THEN Append(r5, Reason("Good nightlife", {}, 0, 0)) ELSE r5
        family_trip == tt \in FamilyTrips
        family == family_trip /\ Get(region, "family_friendly", 0) >= 4
        s7 == IF family THEN s6 + 3 * user_weight ELSE s6
        m7 == IF family_trip THEN m6 + 5 * user_weight ELSE m6
        r7 == IF family
              THEN Append(r6, Reason("Family friendly", {}, 0, 0)) ELSE r6
        cultural == "cultural" \in user_styles
        culture == cultural /\ Get(region, "culture_score", 0) >= 4
        user_score == IF culture THEN s7 + 3 * user_weight ELSE s7
        user_max == IF cultural THEN m7 + 5 * user_weight ELSE m7
        match_reasons == IF culture
                         THEN Append(r7, Reason("Rich culture", {}, 0, 0))
                         ELSE r7
        user_match_pct == IF user_max > 0
                          THEN [num |-> user_score * 100, den |-> user_max]
                          ELSE [num |-> 0, den |-> 1]
    IN  [user_index |-> idx - 1,
         user_name |-> Get(user_prefs, "name", DefaultUserName(idx)),
         score |-> user_score,
         max_possible |-> user_max,
         match_percentage |-> user_match_pct,
         match_reasons |-> match_reasons,
         mismatch_reasons |-> x3,
         sentiment |-> get_sentiment(user_match_pct)]

RECURSIVE SumField(_, _)
SumField(seq, f) ==
    IF seq = << >> THEN 0
    ELSE seq[1][f] + SumField(Tail(seq), f)

\* the percentage of an empty total taken as a full match
overall_match_percentage_full(total_score, max_possible_score) ==
    IF max_possible_score > 0
    THEN Round1(total_score * 100, max_possible_score)
    ELSE 1000

\* the percentage cut to one decimal instead of rounded
overall_match_percentage_cut(total_score, max_possible_score) ==
    IF max_possible_score > 0
    THEN (total_score * 1000) \div max_possible_score
    ELSE 0

\* line 199 and line 207: round(total / max * 100, 1), in tenths
overall_match_percentage(total_score, max_possible_score) ==
    IF max_possible_score > 0
    THEN Round1(total_score * 100, max_possible_score)
    ELSE 0

(***************************************************************************)
(* TravelMatcher._generate_pros.  Requires 'budget_range' in DOMAIN        *)
(* region (line 277 raises KeyError otherwise).                            *)
(***************************************************************************)
generate_pros(region, users) ==
    LET p1 == IF Cardinality(Get(region, "environment", {})) >= 3
              THEN <<Reason("Diverse environments", region["environment"], 0, 0)>>
              ELSE << >>
        p2 == IF Cardinality(Get(region, "activities", {})) >= 7
              THEN Append(p1, Reason("Wide range of activities", {},
                                     Cardinality(region["activities"]), 0))
              ELSE p1
        p3 == IF region["budget_range"][2] < 100
              THEN Append(p2, Reason("Budget-friendly", {},
                                     region["budget_range"][1],
                                     region["budget_range"][2]))
              ELSE p2
        p4 == IF Get(region, "family_friendly", 0) >= 4
              THEN Append(p3, Reason("Family-friendly destination", {}, 0, 0))
              ELSE p3
        p5 == IF Get(region, "nightlife_score", 0) >= 4
              THEN Append(p4, Reason("Excellent nightlife scene", {}, 0, 0))
              ELSE p4
        p6 == IF Get(region, "culture_score", 0) >= 4
              THEN Append(p5, Reason("Rich cultural experiences", {}, 0, 0))
              ELSE p5
    IN  SubSeq(p6, 1, Min(5, Len(p6)))

(***************************************************************************)
(* TravelMatcher._score_region.  region['budget_range'] is read without a  *)
(* default at line 94 (for every user) and at line 277 (always), so the    *)
(* call raises KeyError exactly when the region has no 'budget_range'.     *)
(***************************************************************************)
score_region_raises(region, users) == "budget_range" \notin DOMAIN region

score_region(region, users, tt) ==
    LET weights == get_user_weights(users, tt)
        user_scores == [i \in 1..Len(users) |->
                          score_region_user(region, users[i], i, weights[i], tt)]
        total_score == SumField(user_scores, "score")
        max_possible_score == SumField(user_scores, "max_possible")
    IN  [total_score |-> total_score,
         max_possible_score |-> max_possible_score,
         match_percentage |->
             overall_match_percentage(total_score, max_possible_score),
         user_breakdown |-> user_scores,
         pros |-> generate_pros(region, users)]

(***************************************************************************)
(* TravelMatcher.calculate_region_match, lines 45-68.                      *)
(***************************************************************************)
\* the "Anywhere" disjunct of line 50 forgotten
scope_filter_tags_only(r, scope) == scope \in Get(r, "region_tags", {})

\* the filter also accepting a region by its continent code
scope_filter_continent(r, scope) ==
    \/ scope \in Get(r, "region_tags", {})
    \/ "continent" \in DOMAIN r /\ Lower(r["continent"]) = Lower(scope)
    \/ scope = "Anywhere"

\* line 50: the condition of the scope filter
scope_filter(r, scope) ==
    scope \in Get(r, "region_tags", {}) \/ scope = "Anywhere"

\* lines 48-51
eligible(catalog, scope) == SelectSeq(catalog, LAMBDA r : scope_filter(r, scope))

\* an inclusion gate added after scoring: only scores above 20 are kept
scored_regions_gated(elig, users, tt) ==
    SelectSeq([i \in 1..Len(elig) |->
                  LET score_details == score_region(elig[i], users, tt)
                  IN  [region |-> elig[i],
                       score |-> score_details.total_score,
                       match_percentage |-> score_details.match_percentage,
                       details |-> score_details,
                       user_breakdown |-> score_details.user_breakdown]],
              LAMBDA e : e.score > 20)

\* lines 53-63: every eligible region is appended, whatever its score
scored_regions(elig, users, tt) ==
    [i \in 1..Len(elig) |->
        LET score_details == score_region(elig[i], users, tt)
        IN  [region |-> elig[i],
             score |-> score_details.total_score,
             match_percentage |-> score_details.match_percentage,
             details |-> score_details,
             user_breakdown |-> score_details.user_breakdown]]

\* the sort of line 66 forgotten
sort_by_score_unsorted(seq) == seq

\* line 66: list.sort(key=score, reverse=True) is stable: among equal scores
\* the earlier element stays first
sort_by_score(seq) ==
    LET rank(i) == 1 + Cardinality({j \in 1..Len(seq) :
                        \/ seq[j].score > seq[i].score
                        \/ seq[j].score = seq[i].score /\ j < i})
    IN  [p \in 1..Len(seq) |-> seq[CHOOSE i \in 1..Len(seq) : rank(i) = p]]

\* line 68: scored_regions[:7]
top_regions(seq) == SubSeq(seq, 1, Min(TopRegions, Len(seq)))

calculate_region_match(catalog, users, scope, tt) ==
    top_regions(sort_by_score(scored_regions(eligible(catalog, scope), users, tt)))

calculate_region_match_raises(catalog, users, scope) ==
    LET elig == eligible(catalog, scope)
    IN  \E i \in 1..Len(elig) : score_region_raises(elig[i], users)

(***************************************************************************)
(* TravelMatcher._score_city, lines 363-458.                               *)
(***************************************************************************)
\* line 385
city_budget_veto(city_budget_max, budget_max) ==
    city_budget_max > budget_max + BudgetFlex

\* one iteration of the loop of lines 374-446, for the user at 1-based
\* position idx.  Requires 'budget_range' in DOMAIN city.
score_city_user(city, user_prefs, idx, user_weight) ==
    LET budget_max == Get(user_prefs, "budget_range", <<0, 1000>>)[2]
        city_budget_max == city["budget_range"][2]
        veto == city_budget_veto(city_budget_max, budget_max)
        s1 == IF veto THEN 0 - 20 * user_weight ELSE 0
        m1 == IF veto THEN 20 * user_weight ELSE 0
        r1 == IF veto THEN << >> ELSE <<Reason("Within budget", {}, 0, 0)>>
        mismatch_reasons == IF veto THEN <<Reason("Above budget", {}, 0, 0)>>
                            ELSE << >>
        \* environment
        user_envs == Get(user_prefs, "environment", {})
        env_matches == user_envs \cap Get(city, "environment", {})
        s2 == s1 + Cardinality(env_matches) * 10 * user_weight
        m2 == m1 + Cardinality(user_envs) * 10 * user_weight
        r2 == IF env_matches # {}
              THEN Append(r1, Reason("Environment", env_matches, 0, 0)) ELSE r1
        \* style
        user_styles == Get(user_prefs, "style", {})
        style_matches == user_styles \cap Get(city, "style", {})
        s3 == s2 + Cardinality(style_matches) * 8 * user_weight
        m3 == m2 + Cardinality(user_styles) * 8 * user_weight
        r3 == IF style_matches # {}
              THEN Append(r2, Reason("Style", style_matches, 0, 0)) ELSE r2
        \* activities
        user_activities == Get(user_prefs, "activities", {})
        activity_matches == user_activities \cap Get(city, "activities", {})
        s4 == s3 + Cardinality(activity_matches) * 3 * user_weight
        m4 == m3 + Cardinality(user_activities) * 3 * user_weight
        r4 == IF activity_matches # {}
              THEN Append(r3, Reason("activities", {},
                                     Cardinality(activity_matches), 0))
              ELSE r3
        \* nightlife
        party == "party" \in user_styles
        nightlife == party /\ Get(city, "nightlife_score", 0) >= 4
        user_score == IF nightlife THEN s4 + 3 * user_weight ELSE s4
        user_max == IF party THEN m4 + 5 * user_weight ELSE m4
        match_reasons == IF nightlife
                         THEN Append(r4, Reason("Great nightlife", {}, 0, 0))
                         ELSE r4
        user_match_pct == IF user_max > 0
                          THEN [num |-> user_score * 100, den |-> user_max]
                          ELSE [num |-> 0, den |-> 1]
    IN  [user_index |-> idx - 1,
         user_name |-> Get(user_prefs, "name", DefaultUserName(idx)),
         score |-> user_score,
         max_possible |-> user_max,
         match_percentage |-> user_match_pct,
         match_reasons |-> match_reasons,
         mismatch_reasons |-> mismatch_reasons,
         sentiment |-> get_sentiment(user_match_pct)]

\* TravelMatcher._generate_city_pros; line 470 reads city['budget_range']
generate_city_pros(city) ==
    LET p1 == IF Get(city, "nightlife_score", 0) >= 4
              THEN <<"Excellent nightlife">> ELSE << >>
        p2 == IF Get(city, "family_friendly", 0) >= 4
              THEN Append(p1, "Very family-friendly") ELSE p1
        p3 == IF Get(city, "culture_score", 0) >= 4
              THEN Append(p2, "Rich cultural attractions") ELSE p2
        p4 == IF city["budget_range"][2] < 100
              THEN Append(p3, "Budget-friendly") ELSE p3
        p5 == IF Cardinality(Get(city, "activities", {})) >= 6
              THEN Append(p4, "Many activities available") ELSE p4
        p6 == IF Get(city, "best_for", "") # ""
              THEN Append(p5, city["best_for"]) ELSE p5
    IN  SubSeq(p6, 1, Min(4, Len(p6)))

\* TravelMatcher._generate_city_cons
generate_city_cons(city, users) ==
    LET budget_issues ==
            Cardinality({i \in 1..Len(users) :
                city["budget_range"][2]
                    > Get(users[i], "budget_range", <<0, 1000>>)[2]})
        c1 == IF budget_issues > 0 THEN <<"May be pricey for some">> ELSE << >>
        c2 == IF Get(city, "nightlife_score", 0) <= 2
              THEN Append(c1, "Limited nightlife") ELSE c1
        c3 == IF Get(city, "family_friendly", 0) <= 2
              THEN Append(c2, "Not ideal for young kids") ELSE c2
    IN  SubSeq(c3, 1, Min(3, Len(c3)))

\* city['budget_range'] is read without a default at line 383 (for every
\* user) and at line 470 (always)
score_city_raises(city, users) == "budget_range" \notin DOMAIN city

score_city(city, users, tt) ==
    LET weights == get_user_weights(users, tt)
        user_scores == [i \in 1..Len(users) |->
                          score_city_user(city, users[i], i, weights[i])]
        total_score == SumField(user_scores, "score")
        max_possible_score == SumField(user_scores, "max_possible")
    IN  [total_score |-> total_score,
         max_possible_score |-> max_possible_score,
         match_percentage |->
             overall_match_percentage(total_score, max_possible_score),
         user_breakdown |-> user_scores,
         best_for |-> Get(city, "best_for", ""),
         pros |-> generate_city_pros(city),
         cons |-> generate_city_cons(city, users)]

(***************************************************************************)
(* TravelMatcher.calculate_city_match, lines 342-361.                      *)
(***************************************************************************)
\* the region filter of line 343 dropped: every city is scored
city_filter_all(c, rid) == TRUE

\* line 343: c.get('region_id') == region_id
city_filter(c, rid) == "region_id" \in DOMAIN c /\ c["region_id"] = rid

region_cities(catalog, rid) ==
    SelectSeq(catalog, LAMBDA c : city_filter(c, rid))

\* lines 347-356
scored_cities(rcities, users, tt) ==
    [i \in 1..Len(rcities) |->
        LET score_details == score_city(rcities[i], users, tt)
        IN  [city |-> rcities[i],
             score |-> score_details.total_score,
             match_percentage |-> score_details.match_percentage,
             details |-> score_details,
             user_breakdown |-> score_details.user_breakdown]]

\* line 361: scored_cities[:5]
TopCities == 5

top_cities(seq) == SubSeq(seq, 1, Min(TopCities, Len(seq)))

\* line 359 is the same stable descending sort as line 66
calculate_city_match(catalog, rid, users, tt) ==
    top_cities(sort_by_score(scored_cities(region_cities(catalog, rid), users, tt)))

calculate_city_match_raises(catalog, rid, users) ==
    LET rcities == region_cities(catalog, rid)
    IN  \E i \in 1..Len(rcities) : score_city_raises(rcities[i], users)

(***************************************************************************)
(* Inputs.  A catalog is either one region drawn from RegionShapes, which  *)
(* varies every field the scorer reads, or up to MaxRegions regions drawn  *)
(* from the two RankShapes, long enough for the top-7 cut to act.  The     *)
(* 'id' of a region is its position (ids are unique in a collection).      *)
(***************************************************************************)
Merge(A, B) == {a @@ b : a \in A, b \in B}

RegionShapes ==
    Merge(Optional("budget_range", {<<40, 80>>, <<120, 260>>}),
    Merge(Optional("environment", {{"beach", "mountain"}}),
    Merge(Optional("style", {{"romantic"}, {"party", "cultural"}}),
    Merge(Optional("activities", {{"diving"}}),
    Merge(Optional("climate", {"warm"}),
    Merge({EmptyDict,
           [nightlife_score |-> 4, family_friendly |-> 4, culture_score |-> 4],
           [nightlife_score |-> 3, family_friendly |-> 3, culture_score |-> 3]},
          {EmptyDict,
           [region_tags |-> {"Europe"}],
           [continent |-> "europe", tags |-> {"Beach"}]}))))))

RankShapes ==
    {[budget_range |-> <<40, 80>>, environment |-> {"beach"},
      style |-> {"romantic"}, region_tags |-> {"Europe"}],
     [budget_range |-> <<120, 260>>, environment |-> {"mountain"},
      style |-> {"party", "cultural"}, culture_score |-> 5]}

WithIds(seq) == [i \in 1..Len(seq) |-> ("id" :> i) @@ seq[i]]

Catalogs ==
    {WithIds(<<r>>) : r \in RegionShapes}
    \cup {WithIds(s) : s \in SeqsUpTo(RankShapes, MaxRegions)}

UserShapes ==
    {[name |-> "Ann", environment |-> {"beach"}, style |-> {"romantic"},
      activities |-> {"diving"}, budget_range |-> <<50, 150>>,
      climate |-> "warm"],
     [name |-> "Bob", environment |-> {"mountain"},
      style |-> {"party", "cultural"}, budget_range |-> <<20, 30>>],
     [name |-> "Cy", environment |-> {"beach"}, style |-> {"romantic"},
      budget_range |-> <<100, 200>>],
     EmptyDict}

Groups == SeqsUpTo(UserShapes, MaxUsers)

Scopes == {"Anywhere", "Europe", "beach"}

TripTypes == {"friends_vacation", "family_with_kids"}

(***************************************************************************)
(* State machine.  calculate_region_match is a function of the loaded      *)
(* catalog and of its three arguments: Init draws the catalog and the      *)
(* arguments of the call, the step is the call.                            *)
(***************************************************************************)
Init ==
    /\ regions \in Catalogs
    /\ users_preferences \in Groups
    /\ geographic_scope \in Scopes
    /\ trip_type \in TripTypes
    /\ eligible_regions = << >>
    /\ result = << >>
    /\ outcome = "called"
    /\ cities = << >>
    /\ region_id = ""
    /\ call = "calculate_region_match"
    /\ previous_call = EmptyDict
    /\ TRIPS = EmptyDict
    /\ response = EmptyDict
    /\ requests = EmptyDict

CalculateRegionMatch ==
    /\ outcome = "called"
    /\ eligible_regions' = eligible(regions, geographic_scope)
    /\ IF calculate_region_match_raises(regions, users_preferences,
                                        geographic_scope)
       THEN /\ outcome' = "KeyError"
            /\ result' = << >>
       ELSE /\ outcome' = "returned"
            /\ result' = calculate_region_match(regions, users_preferences,
                                                geographic_scope, trip_type)
    /\ UNCHANGED <<regions, users_preferences, geographic_scope, trip_type,
                   cities, region_id, call, previous_call, appvars>>

Next == CalculateRegionMatch

Spec == Init /\ [][Next]_vars

(***************************************************************************)
(* The same for calculate_city_match: Init draws the city catalog and the  *)
(* arguments of the call, the step is the call.  A city catalog is either  *)
(* one city drawn from CityShapes or up to MaxCities cities drawn from the *)
(* three CityRankShapes, long enough for the top-5 cut to act.             *)
(***************************************************************************)
CityShapes ==
    Merge(Optional("region_id", {"r1"}),
    Merge(Optional("budget_range", {<<40, 80>>, <<120, 260>>}),
    Merge(Optional("environment", {{"beach", "mountain"}}),
    Merge(Optional("style", {{"romantic"}, {"party", "cultural"}}),
    Merge(Optional("activities", {{"diving"}}),
    Merge({EmptyDict,
           [nightlife_score |-> 4, family_friendly |-> 4, culture_score |-> 4],
           [nightlife_score |-> 2, family_friendly |-> 2, culture_score |-> 2]},
          Optional("best_for", {"Beach lovers"})))))))

CityRankShapes ==
    {[region_id |-> "r1", budget_range |-> <<40, 80>>,
      environment |-> {"beach"}, style |-> {"romantic"}],
     [region_id |-> "r1", budget_range |-> <<120, 260>>,
      environment |-> {"mountain"}, style |-> {"party", "cultural"},
      nightlife_score |-> 5],
     [region_id |-> "r2", budget_range |-> <<40, 80>>,
      environment |-> {"beach"}]}

CityCatalogs ==
    {WithIds(<<c>>) : c \in CityShapes}
    \cup {WithIds(s) : s \in SeqsUpTo(CityRankShapes, MaxCities)}

RegionIds == {"r1", "r2"}

InitCity ==
    /\ regions = << >>
    /\ cities \in CityCatalogs
    /\ users_preferences \in Groups
    /\ region_id \in RegionIds
    /\ trip_type \in TripTypes
    /\ geographic_scope = "Anywhere"
    /\ eligible_regions = << >>
    /\ result = << >>
    /\ outcome = "called"
    /\ call = "calculate_city_match"
    /\ previous_call = EmptyDict
    /\ TRIPS = EmptyDict
    /\ response = EmptyDict
    /\ requests = EmptyDict

CalculateCityMatch ==
    /\ outcome = "called"
    /\ IF calculate_city_match_raises(cities, region_id, users_preferences)
       THEN /\ outcome' = "KeyError"
            /\ result' = << >>
       ELSE /\ outcome' = "returned"
            /\ result' = calculate_city_match(cities, region_id,
                                              users_preferences, trip_type)
    /\ UNCHANGED <<regions, cities, users_preferences, geographic_scope,
                   trip_type, region_id, eligible_regions, call,
                   previous_call, appvars>>

NextCity == CalculateCityMatch

SpecCity == InitCity /\ [][NextCity]_vars

(***************************************************************************)
(* Sequences of calls on one engine: the catalog is loaded once, then the  *)
(* caller makes any number of calls of the two methods, each with its own  *)
(* arguments.  Neither method assigns to self.regions or self.cities nor   *)
(* to an item of users_preferences: eligible_regions, scored_regions and   *)
(* the score details are fresh lists and dicts, and .sort() acts on the    *)
(* fresh list.                                                             *)
(***************************************************************************)
MaxSeqUsers == 1

SeqRegionShapes ==
    RankShapes
    \cup {[budget_range |-> <<40, 80>>, environment |-> {"beach"},
           family_friendly |-> 4, region_tags |-> {"Europe"}]}

SeqStores ==
    {[regions |-> WithIds(r), cities |-> WithIds(c)] :
        r \in {<<x, y>> : x \in SeqRegionShapes \ RankShapes, y \in RankShapes},
        c \in {w \in CityRankShapes \X CityRankShapes \X CityRankShapes :
                   /\ w[1]["region_id"] = "r2"
                   /\ "nightlife_score" \in DOMAIN w[2]
                   /\ w[3]["region_id"] = "r1"
                   /\ "nightlife_score" \notin DOMAIN w[3]} }

SeqUserShapes ==
    {u \in UserShapes : Get(u, "name", "") \in {"Ann", "Bob"}}

SeqGroups == SeqsUpTo(SeqUserShapes, MaxSeqUsers)

SeqTripTypes == {"friends_vacation", "friends_adventure",
                 "family_with_kids", "family_without_kids"}

InitSeq ==
    /\ \E store \in SeqStores :
           regions = store.regions /\ cities = store.cities
    /\ users_preferences = << >>
    /\ geographic_scope = "Anywhere"
    /\ trip_type = "friends_vacation"
    /\ region_id = ""
    /\ eligible_regions = << >>
    /\ result = << >>
    /\ outcome = "loaded"
    /\ call = "none"
    /\ previous_call = EmptyDict
    /\ TRIPS = EmptyDict
    /\ response = EmptyDict
    /\ requests = EmptyDict

\* the catalog, the arguments and the result of the call just finished
Snapshot ==
    [call |-> call, regions |-> regions, cities |-> cities,
     users_preferences |-> users_preferences,
     geographic_scope |-> geographic_scope, trip_type |-> trip_type,
     region_id |-> region_id, result |-> result, outcome |-> outcome]

\* self.regions sorted in place by the call instead of a fresh list
CallRegionMatchInPlace(users, scope, tt) ==
    /\ previous_call' = IF call = "none" THEN EmptyDict ELSE Snapshot
    /\ call' = "calculate_region_match"
    /\ users_preferences' = users
    /\ geographic_scope' = scope
    /\ trip_type' = tt
    /\ eligible_regions' = eligible(regions, scope)
    /\ IF calculate_region_match_raises(regions, users, scope)
       THEN /\ outcome' = "KeyError"
            /\ result' = << >>
            /\ regions' = regions
       ELSE /\ outcome' = "returned"
            /\ result' = calculate_region_match(regions, users, scope, tt)
            /\ regions' = [i \in 1..Len(regions) |->
                               sort_by_score(scored_regions(regions, users, tt))[i].region]
    /\ UNCHANGED <<cities, region_id, appvars>>

CallRegionMatch(users, scope, tt) ==
    /\ previous_call' = IF call = "none" THEN EmptyDict ELSE Snapshot
    /\ call' = "calculate_region_match"
    /\ users_preferences' = users
    /\ geographic_scope' = scope
    /\ trip_type' = tt
    /\ eligible_regions' = eligible(regions, scope)
    /\ IF calculate_region_match_raises(regions, users, scope)
       THEN /\ outcome' = "KeyError"
            /\ result' = << >>
       ELSE /\ outcome' = "returned"
            /\ result' = calculate_region_match(regions, users, scope, tt)
    /\ UNCHANGED <<regions, cities, region_id, appvars>>

CallCityMatch(rid, users, tt) ==
    /\ previous_call' = IF call = "none" THEN EmptyDict ELSE Snapshot
    /\ call' = "calculate_city_match"
    /\ users_preferences' = users
    /\ region_id' = rid
    /\ trip_type' = tt
    /\ IF calculate_city_match_raises(cities, rid, users)
       THEN /\ outcome' = "KeyError"
            /\ result' = << >>
       ELSE /\ outcome' = "returned"
            /\ result' = calculate_city_match(cities, rid, users, tt)
    /\ UNCHANGED <<regions, cities, geographic_scope, eligible_regions, appvars>>

NextSeq ==
    \/ \E users \in SeqGroups, scope \in {"Anywhere", "Europe"},
          tt \in SeqTripTypes : CallRegionMatch(users, scope, tt)
    \/ \E rid \in RegionIds, users \in SeqGroups,
          tt \in {"friends_vacation", "family_with_kids"} :
              CallCityMatch(rid, users, tt)

SpecSeq == InitSeq /\ [][NextSeq]_vars

(***************************************************************************)
(* The Flask application (app.py).  TRIPS is the module-level dict: trip   *)
(* id -> trip dict.  requests maps a worker thread to the request it       *)
(* serves (handler, trip id, JSON body) and response is the last answer    *)
(* sent: handler, HTTP status, JSON body.  Timestamps (created_at,         *)
(* submitted_at, voted_at) are left out of the records.  A handler that    *)
(* raises outside a try block answers 500 through Flask.  In SpecApp the   *)
(* requests are served one at a time, each handler in one step.            *)
(***************************************************************************)
None == "<None>"

NotFound == [success |-> FALSE, error |-> "Trip not found"]

Answer(handler, status, body) ==
    [handler |-> handler, status |-> status, body |-> body]

Request(handler, t, data) ==
    [handler |-> handler, trip_id |-> t, data |-> data]

\* str(uuid.uuid4())[:8], a fresh id at every call
TripIds == {"t1"}

Names == {"Ann", "Bob"}

\* create_trip, lines 51-62
new_trip(trip_id, data) ==
    [id |-> trip_id,
     trip_name |-> Get(data, "trip_name", "Untitled Trip"),
     organizer_name |-> Get(data, "organizer_name", None),
     geographic_scope |-> Get(data, "geographic_scope", "Anywhere"),
     trip_type |-> Get(data, "trip_type", "friends_adventure"),
     duration_days |-> Get(data, "duration_days", 7),
     status |-> "collecting_preferences",
     participants |->
         IF "organizer_preferences" \in DOMAIN data
         THEN <<("name" :> Get(data, "organizer_name", None))
                    @@ data["organizer_preferences"]>>
         ELSE << >>,
     results |-> None]

\* submit_preferences, lines 106-113
new_participant(data) ==
    [name |-> Get(data, "name", None),
     environment |-> Get(data, "environment", << >>),
     style |-> Get(data, "style", << >>),
     activities |-> Get(data, "activities", << >>),
     budget_range |-> Get(data, "budget_range", <<50, 150>>)]

\* submit_preferences, line 116
existing(participants, participant) ==
    SelectSeq(participants, LAMBDA p : p["name"] = participant["name"])

\* the participant appended whether or not the name is present
submit_participants_append(participants, participant) ==
    Append(participants, participant)

\* submit_preferences, lines 117-125
submit_participants(participants, participant) ==
    IF existing(participants, participant) # << >>
    THEN [i \in 1..Len(participants) |->
              IF participants[i]["name"] # participant["name"]
              THEN participants[i] ELSE participant]
    ELSE Append(participants, participant)

\* the votes of the other users kept together with the user's own
remove_votes_keep(votes, user_name) == votes

\* vote_destination, lines 261-264
remove_votes(votes, user_name) ==
    SelectSeq(votes, LAMBDA v : v.user_name # user_name)

\* Counter(v['region_id'] for v in votes), line 275
vote_counts(votes) ==
    [r \in {votes[i].region_id : i \in 1..Len(votes)} |->
         Cardinality({i \in 1..Len(votes) : votes[i].region_id = r})]

\* the JSON bodies of the requests
CreateBodies ==
    Merge(Optional("organizer_name", {"Ann"}),
          Optional("organizer_preferences",
                   {EmptyDict, [environment |-> <<"mountain">>]}))

PreferenceBodies ==
    Merge(Optional("name", Names),
          {EmptyDict,
           [environment |-> <<"beach">>, budget_range |-> <<20, 30>>]})

VoteBodies ==
    Merge(Optional("user_name", Names), Optional("region_id", RegionIds))

CityBodies == Optional("region_id", {"r1"})

InitApp ==
    /\ TRIPS = EmptyDict
    /\ response = EmptyDict
    /\ requests = EmptyDict
    /\ regions = << >>
    /\ cities = << >>
    /\ users_preferences = << >>
    /\ geographic_scope = "Anywhere"
    /\ trip_type = "friends_vacation"
    /\ region_id = ""
    /\ eligible_regions = << >>
    /\ result = << >>
    /\ outcome = "loaded"
    /\ call = "none"
    /\ previous_call = EmptyDict

engine == <<regions, users_preferences, geographic_scope, trip_type,
            eligible_regions, result, outcome, cities, region_id,
            call, previous_call>>

CreateTrip(data) ==
    \E trip_id \in TripIds \ DOMAIN TRIPS :
        /\ requests' = ("w1" :> Request("create_trip", trip_id, data))
        /\ TRIPS' = (trip_id :> new_trip(trip_id, data)) @@ TRIPS
        /\ response' = Answer("create_trip", 200,
                              [success |-> TRUE, trip_id |-> trip_id])
        /\ UNCHANGED engine

GetTrip(t) ==
    /\ requests' = ("w1" :> Request("get_trip", t, EmptyDict))
    /\ response' = IF t \notin DOMAIN TRIPS
                   THEN Answer("get_trip", 404, NotFound)
                   ELSE Answer("get_trip", 200,
                               [success |-> TRUE, trip |-> TRIPS[t]])
    /\ UNCHANGED <<TRIPS, engine>>

SubmitPreferences(t, data) ==
    /\ requests' = ("w1" :> Request("submit_preferences", t, data))
    /\ IF t \notin DOMAIN TRIPS
       THEN /\ response' = Answer("submit_preferences", 404, NotFound)
            /\ UNCHANGED TRIPS
       ELSE LET participants ==
                    submit_participants(TRIPS[t]["participants"],
                                        new_participant(data))
            IN /\ TRIPS' = [TRIPS EXCEPT ![t] =
                                [@ EXCEPT !["participants"] = participants]]
               /\ response' = Answer("submit_preferences", 200,
                                     [success |-> TRUE,
                                      message |-> "Preferences saved",
                                      participant_count |-> Len(participants)])
    /\ UNCHANGED engine

\* lines 257-258 create the 'votes' key; data['user_name'] raises KeyError
\* at line 263 (list not empty, nothing assigned) or at line 268 (the empty
\* list assigned); data['region_id'] raises at line 269, after line 261
\* assigned the filtered list
VoteDestination(t, data) ==
    /\ requests' = ("w1" :> Request("vote_destination", t, data))
    /\ IF t \notin DOMAIN TRIPS
       THEN /\ response' = Answer("vote_destination", 404, NotFound)
            /\ UNCHANGED TRIPS
       ELSE LET votes == Get(TRIPS[t], "votes", << >>)
                with(vs) == [TRIPS EXCEPT ![t] = ("votes" :> vs) @@ @]
            IN IF "user_name" \notin DOMAIN data
               THEN /\ TRIPS' = with(votes)
                    /\ response' = Answer("vote_destination", 500,
                                          [error |-> "KeyError"])
               ELSE IF "region_id" \notin DOMAIN data
               THEN /\ TRIPS' = with(remove_votes(votes, data["user_name"]))
                    /\ response' = Answer("vote_destination", 500,
                                          [error |-> "KeyError"])
               ELSE LET vs == Append(remove_votes(votes, data["user_name"]),
                                     [user_name |-> data["user_name"],
                                      region_id |-> data["region_id"]])
                    IN /\ TRIPS' = with(vs)
                       /\ response' = Answer("vote_destination", 200,
                                             [success |-> TRUE,
                                              vote_counts |-> vote_counts(vs),
                                              total_votes |-> Len(vs)])
    /\ UNCHANGED engine

\* line 299 reads the local name trip, which line 301 assigns: the read
\* raises UnboundLocalError before the try block of line 303 is entered
GetCities(t, data) ==
    /\ requests' = ("w1" :> Request("get_cities", t, data))
    /\ response' = IF t \notin DOMAIN TRIPS
                   THEN Answer("get_cities", 404, NotFound)
                   ELSE Answer("get_cities", 500,
                               [error |-> "UnboundLocalError"])
    /\ UNCHANGED <<TRIPS, engine>>

NextApp ==
    \/ \E data \in CreateBodies : CreateTrip(data)
    \/ \E t \in TripIds : GetTrip(t)
    \/ \E t \in TripIds, data \in PreferenceBodies : SubmitPreferences(t, data)
    \/ \E t \in TripIds, data \in VoteBodies : VoteDestination(t, data)
    \/ \E t \in TripIds, data \in CityBodies : GetCities(t, data)

SpecApp == InitApp /\ [][NextApp]_vars

(***************************************************************************)
(* Two submit_preferences requests for one trip served by two threads of   *)
(* the development server (app.run, line 351, serves each request in its   *)
(* own thread).  The handler takes no lock, so the threads may switch      *)
(* between its statements: the read of line 116, the list built by lines   *)
(* 119-122, the assignment of that list to TRIPS[trip_id]['participants'], *)
(* the append of line 125 and the answer of lines 127-131 are steps of     *)
(* their own.  pc is the thread's position, participants its local list.   *)
(***************************************************************************)
Workers == {"w1", "w2"}

\* the participant lists a trip can hold when the two requests arrive
ConcParticipants ==
    {<< >>,
     <<new_participant([name |-> "Ann"])>>,
     <<new_participant([name |-> "Ann"]),
       new_participant([name |-> "Bob", environment |-> <<"mountain">>])>>}

InitConc ==
    /\ \E participants \in ConcParticipants :
           TRIPS = ("t1" :> [new_trip("t1", EmptyDict)
                                 EXCEPT !["participants"] = participants])
    /\ requests \in [Workers ->
                        {Request("submit_preferences", "t1", data)
                             @@ [pc |-> "start", participants |-> << >>] :
                                    data \in PreferenceBodies}]
    /\ response = EmptyDict
    /\ regions = << >>
    /\ cities = << >>
    /\ users_preferences = << >>
    /\ geographic_scope = "Anywhere"
    /\ trip_type = "friends_vacation"
    /\ region_id = ""
    /\ eligible_regions = << >>
    /\ result = << >>
    /\ outcome = "loaded"
    /\ call = "none"
    /\ previous_call = EmptyDict

Goto(w, pc) == [requests EXCEPT ![w] = [@ EXCEPT !["pc"] = pc]]

\* lines 100-117: the trip exists, the participant is built, existing is read
CheckExisting(w) ==
    /\ requests[w]["pc"] = "start"
    /\ requests[w].trip_id \in DOMAIN TRIPS
    /\ requests' =
           Goto(w, IF existing(TRIPS[requests[w].trip_id]["participants"],
                               new_participant(requests[w].data)) # << >>
                   THEN "update" ELSE "append")
    /\ UNCHANGED <<TRIPS, response, engine>>

\* lines 119-122, right-hand side: the new list is built from the list read now
BuildList(w) ==
    /\ requests[w]["pc"] = "update"
    /\ LET participant == new_participant(requests[w].data)
           current == TRIPS[requests[w].trip_id]["participants"]
       IN requests' =
              [requests EXCEPT ![w] =
                  [@ EXCEPT !["pc"] = "assign",
                            !["participants"] =
                                [i \in 1..Len(current) |->
                                     IF current[i]["name"] # participant["name"]
                                     THEN current[i] ELSE participant]]]
    /\ UNCHANGED <<TRIPS, response, engine>>

\* line 119: the list built is assigned to TRIPS[trip_id]['participants']
AssignList(w) ==
    /\ requests[w]["pc"] = "assign"
    /\ TRIPS' = [TRIPS EXCEPT ![requests[w].trip_id] =
                    [@ EXCEPT !["participants"] = requests[w]["participants"]]]
    /\ requests' = Goto(w, "respond")
    /\ UNCHANGED <<response, engine>>

\* line 125: list.append on the list TRIPS holds now
AppendParticipant(w) ==
    /\ requests[w]["pc"] = "append"
    /\ TRIPS' = [TRIPS EXCEPT ![requests[w].trip_id] =
                    [@ EXCEPT !["participants"] =
                         Append(@, new_participant(requests[w].data))]]
    /\ requests' = Goto(w, "respond")
    /\ UNCHANGED <<response, engine>>

\* lines 127-131
Respond(w) ==
    /\ requests[w]["pc"] = "respond"
    /\ response' =
           Answer("submit_preferences", 200,
                  [success |-> TRUE, message |-> "Preferences saved",
                   participant_count |->
                       Len(TRIPS[requests[w].trip_id]["participants"])])
    /\ requests' = Goto(w, "done")
    /\ UNCHANGED <<TRIPS, engine>>

NextConc ==
    \/ \E w \in Workers : CheckExisting(w)
    \/ \E w \in Workers : BuildList(w)
    \/ \E w \in Workers : AssignList(w)
    \/ \E w \in Workers : AppendParticipant(w)
    \/ \E w \in Workers : Respond(w)

SpecConc == InitConc /\ [][NextConc]_vars

(***************************************************************************)
(* Helpers of the properties.                                              *)
(***************************************************************************)
Returned == outcome = "returned"

Called == outcome # "called"

Entries == 1..Len(result)

Users == 1..Len(users_preferences)

InEligible(r) == \E j \in 1..Len(eligible_regions) : eligible_regions[j] = r

InResult(r) == \E j \in Entries : result[j].region = r

C2_InclusionGate ==
    Returned => \A i \in Entries : result[i].score > 20

(***************************************************************************)
(* C2 as amended: calculate_region_match has no inclusion gate.  Every     *)
(* region that passes the scope filter is scored and kept whatever its     *)
(* score; only the cut to the first 7 of the sorted list drops regions, so *)
(* the result holds exactly min(7, number of regions in scope) entries.    *)
(***************************************************************************)
C2_NoGate ==
    Returned =>
        /\ Len(result) = Min(7, Len(eligible_regions))
        /\ \A i \in Entries : InEligible(result[i].region)
        /\ Len(eligible_regions) <= 7 =>
               \A j \in 1..Len(eligible_regions) : InResult(eligible_regions[j])

\* a region scored 20 or less (and matched at 20% or less) by a non-empty
\* group is returned
C2_Witness ==
    /\ Returned /\ users_preferences # << >>
    /\ \E i \in Entries :
           result[i].score <= 20 /\ result[i].match_percentage <= 200

(***************************************************************************)
(* C3 as stated: with an empty group calculate_region_match returns the    *)
(* empty sequence without raising, for every catalog and every scope.      *)
(***************************************************************************)
C3_EmptyGroupEmptyResult ==
    (Called /\ users_preferences = << >>) =>
        (Returned /\ result = << >>)

(***************************************************************************)
(* C3 as amended: with an empty group calculate_region_match never divides *)
(* by zero.  If every region in scope has a 'budget_range' it returns the  *)
(* first min(7, n) of the n regions in scope, in catalog order, each with  *)
(* score 0, match_percentage 0 and an empty user_breakdown (so the result  *)
(* is empty only when no region is in scope); if some region in scope has  *)
(* no 'budget_range' it raises KeyError.                                   *)
(***************************************************************************)
C3_EmptyGroup ==
    (Called /\ users_preferences = << >>) =>
        /\ outcome = "KeyError" <=>
               \E j \in 1..Len(eligible_regions) :
                   "budget_range" \notin DOMAIN eligible_regions[j]
        /\ Returned =>
               /\ Len(result) = Min(7, Len(eligible_regions))
               /\ \A i \in Entries :
                      /\ result[i].region = eligible_regions[i]
                      /\ result[i].score = 0
                      /\ result[i].match_percentage = 0
                      /\ result[i].details.max_possible_score = 0
                      /\ result[i].user_breakdown = << >>

\* an empty group gets a non-empty list back, cut to 7 regions
C3_Witness ==
    /\ Returned /\ users_preferences = << >>
    /\ Len(result) = 7 /\ Len(eligible_regions) = 8
    /\ result[1].match_percentage = 0

(***************************************************************************)
(* C4: every per-user match_percentage of a user_breakdown lies in         *)
(* [0, 100], also when the user's budget does not fit the region.          *)
(***************************************************************************)
C4_PercentageInRange ==
    Returned =>
        \A i \in Entries : \A u \in Users :
            LET pct == result[i].user_breakdown[u].match_percentage
            IN  0 <= pct.num /\ pct.num <= 100 * pct.den

(***************************************************************************)
(* C5: with scope "Anywhere" every region of the catalog passes the scope  *)
(* filter, whatever its continent or tags, also when it has none.          *)
(***************************************************************************)
C5_Anywhere ==
    (Called /\ geographic_scope = "Anywhere") => eligible_regions = regions

\* "Anywhere" let through a region with no region_tags, continent or tags
\* and another one tagged for a continent
C5_Witness ==
    /\ Called /\ geographic_scope = "Anywhere"
    /\ \E j \in 1..Len(eligible_regions) :
           DOMAIN eligible_regions[j] \cap {"region_tags", "continent", "tags"} = {}
    /\ \E j \in 1..Len(eligible_regions) :
           "region_tags" \in DOMAIN eligible_regions[j]

(***************************************************************************)
(* C6 as stated: for a scope other than "Anywhere" a region passes the     *)
(* filter iff its lowercased continent equals the resolved scope id        *)
(* (there is no ContinentMap, so: the scope lowercased, spaces to hyphens) *)
(* or the resolved id or the lowercased scope is in its normalized tag set *)
(* (tags, else environment).                                               *)
(***************************************************************************)
ClaimedScopeMatch(r, scope) ==
    LET id == Lower(scope)
        tagset == {Lower(t) : t \in IF "tags" \in DOMAIN r THEN r["tags"]
                                    ELSE Get(r, "environment", {})}
    IN  \/ "continent" \in DOMAIN r /\ Lower(r["continent"]) = id
        \/ id \in tagset

C6_ContinentOrTags ==
    (Called /\ geographic_scope # "Anywhere") =>
        \A j \in 1..Len(regions) :
            InEligible(regions[j]) <=> ClaimedScopeMatch(regions[j], geographic_scope)

(***************************************************************************)
(* C6 as amended: for a scope other than "Anywhere" a region passes the    *)
(* filter iff the scope string itself, unchanged, is an element of the     *)
(* region's 'region_tags'; continent, tags and environment are not read,   *)
(* and a region without 'region_tags' is not matched, with no failure of   *)
(* the filter.                                                             *)
(***************************************************************************)
C6_RegionTags ==
    (Called /\ geographic_scope # "Anywhere") =>
        /\ \A j \in 1..Len(regions) :
               InEligible(regions[j]) <=>
                   /\ "region_tags" \in DOMAIN regions[j]
                   /\ geographic_scope \in regions[j]["region_tags"]
        /\ \A j \in 1..Len(eligible_regions) :
               \E k \in 1..Len(regions) : regions[k] = eligible_regions[j]

\* scope "Europe" lets a region tagged "Europe" through and filters out a
\* region of the same catalog that has no region_tags
C6_Witness ==
    /\ Called /\ geographic_scope = "Europe"
    /\ eligible_regions # << >>
    /\ \E j \in 1..Len(regions) :
           /\ "region_tags" \notin DOMAIN regions[j]
           /\ ~InEligible(regions[j])

(***************************************************************************)
(* Helpers: the budget ranges met by user u in entry i of the result, and  *)
(* the verdict recorded for them.                                          *)
(***************************************************************************)
UserRange(u) == Get(users_preferences[u], "budget_range", <<0, 1000>>)

RegionRange(i) == result[i].region["budget_range"]

WithinBudget(i, u) ==
    "Within budget" \in Kinds(result[i].user_breakdown[u].match_reasons)

AboveBudget(i, u) ==
    "Above budget" \in Kinds(result[i].user_breakdown[u].mismatch_reasons)

Overlap(a, b) == a[2] >= b[1] /\ b[2] >= a[1]

(***************************************************************************)
(* C7 as stated: the budget compatibility test between a user and a region *)
(* is range overlap (user_max >= region_min and region_max >= user_min),   *)
(* and swapping the two ranges yields the same verdict.                    *)
(***************************************************************************)
C7_BudgetOverlap ==
    Returned =>
        \A i \in Entries : \A u \in Users :
            "budget_range" \in DOMAIN users_preferences[u] =>
                /\ WithinBudget(i, u) <=> Overlap(UserRange(u), RegionRange(i))
                /\ WithinBudget(i, u) <=>
                       ~budget_veto(UserRange(u)[2], RegionRange(i)[2])

(***************************************************************************)
(* C7 as amended: a user and a region are budget compatible iff the        *)
(* region's maximum is at most the user's maximum plus 50; the two minima  *)
(* are not read, so a region cheaper than the user's whole range is        *)
(* compatible and the test is not symmetric.  A compatible user gets the   *)
(* reason "Within budget", an incompatible one "Above budget".             *)
(***************************************************************************)
C7_BudgetVeto ==
    Returned =>
        \A i \in Entries : \A u \in Users :
            /\ WithinBudget(i, u) <=> RegionRange(i)[2] <= UserRange(u)[2] + 50
            /\ AboveBudget(i, u) <=> ~WithinBudget(i, u)

\* a user found within budget of a region that lies wholly below the
\* user's range, and another user within budget only by the $50 margin
C7_Witness ==
    /\ Returned
    /\ \E i \in Entries : \E u \in Users :
           /\ WithinBudget(i, u)
           /\ ~Overlap(UserRange(u), RegionRange(i))
    /\ \E i \in Entries : \E u \in Users :
           /\ WithinBudget(i, u)
           /\ RegionRange(i)[2] > UserRange(u)[2]

(***************************************************************************)
(* C8 as stated: the sentiment label is a function of the user's           *)
(* percentage: >= 70 gives Great/Perfect for, 50 <= pct < 70 gives Good    *)
(* for, < 50 gives Compromise for.                                         *)
(***************************************************************************)
C8_Thresholds50 ==
    Returned =>
        \A i \in Entries : \A u \in Users :
            LET ub == result[i].user_breakdown[u]
                pct == ub.match_percentage
            IN  /\ pct.num >= 70 * pct.den =>
                       ub.sentiment \in {"Great for", "Perfect for"}
                /\ (pct.num >= 50 * pct.den /\ pct.num < 70 * pct.den) =>
                       ub.sentiment = "Good for"
                /\ pct.num < 50 * pct.den => ub.sentiment = "Compromise for"

(***************************************************************************)
(* C8 as amended: the sentiment label is a function of the user's          *)
(* percentage only: >= 85 gives Perfect for, 70 <= pct < 85 gives Great    *)
(* for, 55 <= pct < 70 gives Good for, and < 55 gives Compromise for.      *)
(***************************************************************************)
C8_Thresholds ==
    Returned =>
        \A i \in Entries : \A u \in Users :
            LET ub == result[i].user_breakdown[u]
                pct == ub.match_percentage
            IN  /\ ub.sentiment = "Perfect for" <=> pct.num >= 85 * pct.den
                /\ ub.sentiment = "Great for" <=>
                       (pct.num >= 70 * pct.den /\ pct.num < 85 * pct.den)
                /\ ub.sentiment = "Good for" <=>
                       (pct.num >= 55 * pct.den /\ pct.num < 70 * pct.den)
                /\ ub.sentiment = "Compromise for" <=> pct.num < 55 * pct.den

\* a user at 50% or more but below 55% is labelled Compromise for
C8_Witness ==
    /\ Returned
    /\ \E i \in Entries : \E u \in Users :
           LET ub == result[i].user_breakdown[u]
           IN  /\ ub.match_percentage.num >= 50 * ub.match_percentage.den
               /\ ub.match_percentage.num < 55 * ub.match_percentage.den
               /\ ub.sentiment = "Compromise for"

(***************************************************************************)
(* Helpers: the tags user u shares with the region of entry i.             *)
(***************************************************************************)
Shared(i, u, field) ==
    Cardinality(Get(users_preferences[u], field, {})
                \cap Get(result[i].region, field, {}))

Wanted(u, field) == Cardinality(Get(users_preferences[u], field, {}))

Bonus(i, u, style, field) ==
    IF style \in Get(users_preferences[u], "style", {})
          /\ Get(result[i].region, field, 0) >= 4
    THEN 3 ELSE 0

BonusMax(u, style) ==
    IF style \in Get(users_preferences[u], "style", {}) THEN 5 ELSE 0

FamilyTrip == trip_type \in {"family_with_kids", "family_without_kids"}

SameClimate(i, u) ==
    /\ "climate" \in DOMAIN users_preferences[u]
    /\ "climate" \in DOMAIN result[i].region
    /\ users_preferences[u]["climate"] = result[i].region["climate"]

(***************************************************************************)
(* C9 as stated: raw = 10 per shared environment tag + 8 per shared style  *)
(* tag + 5 per shared activity tag + 5 if the budgets overlap (else -10),  *)
(* and the user's match percentage is min(100, raw/30*100) when raw > 0    *)
(* and 0 otherwise.                                                        *)
(***************************************************************************)
C9_Raw30 ==
    Returned =>
        \A i \in Entries : \A u \in Users :
            LET raw == 10 * Shared(i, u, "environment")
                       + 8 * Shared(i, u, "style")
                       + 5 * Shared(i, u, "activities")
                       + (IF Overlap(UserRange(u), RegionRange(i))
                          THEN 5 ELSE 0 - 10)
                pct == result[i].user_breakdown[u].match_percentage
            IN  IF raw > 0
                THEN pct.num * 30 = Min(raw * 100, 3000) * pct.den
                ELSE pct.num = 0

(***************************************************************************)
(* C9 as amended: the user's score is 10 per shared environment tag + 8    *)
(* per shared style tag + 3 per shared activity tag + 2 if the climates    *)
(* are equal + 3 for each bonus earned (user style 'party' and nightlife   *)
(* >= 4, family trip type and family_friendly >= 4, user style 'cultural'  *)
(* and culture_score >= 4) - 20 if the region's budget maximum exceeds the *)
(* user's maximum + 50; the user's maximum is 10, 8 and 3 per tag the user *)
(* listed + 2 + 5 per bonus that applies + 20 under the budget veto; the   *)
(* match percentage is score / maximum * 100, with no cap and no floor.    *)
(* One shared environment, style and activity tag and a compatible budget  *)
(* give 21 of 23, that is 91.3.                                            *)
(***************************************************************************)
C9_ScoreOverMax ==
    Returned =>
        \A i \in Entries : \A u \in Users :
            LET ub == result[i].user_breakdown[u]
                veto == RegionRange(i)[2] > UserRange(u)[2] + 50
                score == 10 * Shared(i, u, "environment")
                         + 8 * Shared(i, u, "style")
                         + 3 * Shared(i, u, "activities")
                         + (IF SameClimate(i, u) THEN 2 ELSE 0)
                         + Bonus(i, u, "party", "nightlife_score")
                         + (IF FamilyTrip
                               /\ Get(result[i].region, "family_friendly", 0) >= 4
                            THEN 3 ELSE 0)
                         + Bonus(i, u, "cultural", "culture_score")
                         - (IF veto THEN 20 ELSE 0)
                max == 10 * Wanted(u, "environment") + 8 * Wanted(u, "style")
                       + 3 * Wanted(u, "activities") + 2
                       + BonusMax(u, "party") + (IF FamilyTrip THEN 5 ELSE 0)
                       + BonusMax(u, "cultural") + (IF veto THEN 20 ELSE 0)
            IN  /\ ub.score = score
                /\ ub.max_possible = max
                /\ ub.match_percentage.num * max = score * 100 * ub.match_percentage.den

\* the example: one shared environment, style and activity tag, a
\* compatible budget and nothing else: 21 of 23
C9_Witness ==
    /\ Returned
    /\ \E i \in Entries : \E u \in Users :
           /\ Shared(i, u, "environment") = 1
           /\ Shared(i, u, "style") = 1
           /\ Shared(i, u, "activities") = 1
           /\ WithinBudget(i, u)
           /\ result[i].user_breakdown[u].score = 21
           /\ result[i].user_breakdown[u].max_possible = 23

(***************************************************************************)
(* Helpers: sums over the user_breakdown of entry i.                       *)
(***************************************************************************)
RECURSIVE BreakdownSum(_, _, _)
BreakdownSum(i, n, f) ==
    IF n = 0 THEN 0
    ELSE result[i].user_breakdown[n][f] + BreakdownSum(i, n - 1, f)

\* the sum of the per-user percentages of entry i over the users 1..n,
\* as a fraction
RECURSIVE PercentageSum(_, _)
PercentageSum(i, n) ==
    IF n = 0 THEN [num |-> 0, den |-> 1]
    ELSE LET rest == PercentageSum(i, n - 1)
             pct == result[i].user_breakdown[n].match_percentage
         IN  [num |-> rest.num * pct.den + pct.num * rest.den,
              den |-> rest.den * pct.den]

(***************************************************************************)
(* C10 as stated: for every non-empty group the overall match percentage   *)
(* of a destination is the arithmetic mean of the per-user match           *)
(* percentages.                                                            *)
(***************************************************************************)
C10_MeanOfUsers ==
    (Returned /\ users_preferences # << >>) =>
        \A i \in Entries :
            LET total == PercentageSum(i, Len(users_preferences))
            IN  result[i].match_percentage =
                    Round1(total.num, total.den * Len(users_preferences))

(***************************************************************************)
(* C10 as amended: the score of a destination is the sum of the per-user   *)
(* scores, and its overall match percentage is that sum divided by the sum *)
(* of the per-user maxima, times 100, rounded to one decimal: a mean of    *)
(* the per-user percentages weighted by each user's maximum, so a user who *)
(* listed more preferences (or is under the budget veto) counts for more.  *)
(***************************************************************************)
C10_RatioOfSums ==
    (Returned /\ users_preferences # << >>) =>
        \A i \in Entries :
            LET total == BreakdownSum(i, Len(users_preferences), "score")
                max == BreakdownSum(i, Len(users_preferences), "max_possible")
            IN  /\ Len(result[i].user_breakdown) = Len(users_preferences)
                /\ result[i].score = total
                /\ max > 0
                /\ 2 * result[i].match_percentage * max - 2000 * total <= max
                /\ 2000 * total - 2 * result[i].match_percentage * max <= max

\* two users with different maxima: the overall percentage is not the mean
\* of their percentages
C10_Witness ==
    /\ Returned /\ Len(users_preferences) = 2
    /\ \E i \in Entries :
           LET total == PercentageSum(i, 2)
           IN  /\ result[i].user_breakdown[1].max_possible
                      # result[i].user_breakdown[2].max_possible
               /\ result[i].match_percentage # Round1(total.num, total.den * 2)

(***************************************************************************)
(* Helpers: the cities of the catalog that belong to the requested region. *)
(***************************************************************************)
OfRegion(c) == Get(c, "region_id", "") = region_id

CitiesOfRegion == {j \in 1..Len(cities) : OfRegion(cities[j])}

(***************************************************************************)
(* C11: calculate_city_match returns only cities whose region_id equals    *)
(* the requested region id, scores every such city with no score floor,    *)
(* orders the result non-increasing by score and returns exactly           *)
(* min(5, number of cities of that region) entries.                        *)
(***************************************************************************)
C11_CitiesOfRegion ==
    Returned =>
        /\ \A i \in Entries :
               /\ OfRegion(result[i].city)
               /\ \E j \in CitiesOfRegion : cities[j] = result[i].city
        /\ \A i \in Entries : \A j \in Entries :
               i < j => result[i].score >= result[j].score
        /\ Len(result) = Min(5, Cardinality(CitiesOfRegion))
        /\ Cardinality(CitiesOfRegion) <= 5 =>
               \A j \in CitiesOfRegion :
                   \E i \in Entries : result[i].city = cities[j]

\* six cities of the region and one of another: five are returned, a city
\* with a negative score among them, and the sort moved a later city ahead
C11_Witness ==
    /\ Returned /\ users_preferences # << >>
    /\ Cardinality(CitiesOfRegion) = 6 /\ Len(result) = 5
    /\ \E j \in 1..Len(cities) : ~OfRegion(cities[j])
    /\ \E i \in Entries : result[i].score < 0
    /\ \E i \in Entries : \E j \in Entries :
           /\ i < j
           /\ result[i].score > result[j].score
           /\ result[i].city["id"] > result[j].city["id"]

(***************************************************************************)
(* Helpers: the call just made and the call before it.                     *)
(***************************************************************************)
TwoCalls == previous_call # EmptyDict

TwoRegionCalls ==
    /\ TwoCalls
    /\ call = "calculate_region_match"
    /\ previous_call.call = "calculate_region_match"

TwoCityCalls ==
    /\ TwoCalls
    /\ call = "calculate_city_match"
    /\ previous_call.call = "calculate_city_match"

SameOutput ==
    result = previous_call.result /\ outcome = previous_call.outcome

IsFamilyTrip(tt) == tt \in {"family_with_kids", "family_without_kids"}

(***************************************************************************)
(* C12 as stated: trip_type has no effect on scoring: for the same         *)
(* catalog, group and scope calculate_region_match returns the same        *)
(* ranking, scores and per-user percentages for any two trip_type values.  *)
(***************************************************************************)
C12_TripTypeIgnored ==
    (/\ TwoRegionCalls
     /\ users_preferences = previous_call.users_preferences
     /\ geographic_scope = previous_call.geographic_scope) => SameOutput

(***************************************************************************)
(* C12 as amended: trip_type does not change the user weights, and it has  *)
(* no effect on calculate_city_match, but it does enter region scoring:    *)
(* under "family_with_kids" or "family_without_kids" every user's maximum  *)
(* grows by 5 and the user's score by 3 when the region's family_friendly  *)
(* is at least 4.  For the same catalog, group and scope                   *)
(* calculate_region_match returns the same result for two trip types that  *)
(* are both family types or both not.                                      *)
(***************************************************************************)
C12_FamilyTripsOnly ==
    /\ (/\ TwoRegionCalls
        /\ users_preferences = previous_call.users_preferences
        /\ geographic_scope = previous_call.geographic_scope
        /\ IsFamilyTrip(trip_type) <=> IsFamilyTrip(previous_call.trip_type))
           => SameOutput
    /\ (/\ TwoCityCalls
        /\ users_preferences = previous_call.users_preferences
        /\ region_id = previous_call.region_id) => SameOutput
    /\ (/\ TwoRegionCalls /\ Returned /\ previous_call.outcome = "returned"
        /\ users_preferences = previous_call.users_preferences
        /\ geographic_scope = previous_call.geographic_scope
        /\ IsFamilyTrip(trip_type) /\ ~IsFamilyTrip(previous_call.trip_type))
           => \A i \in Entries : \A u \in Users :
                  \E j \in 1..Len(previous_call.result) :
                      /\ previous_call.result[j].region = result[i].region
                      /\ result[i].user_breakdown[u].max_possible
                             = previous_call.result[j].user_breakdown[u].max_possible + 5
                      /\ result[i].user_breakdown[u].score
                             = previous_call.result[j].user_breakdown[u].score
                               + (IF Get(result[i].region, "family_friendly", 0) >= 4
                                  THEN 3 ELSE 0)

\* the same group and scope scored under two different trip types that are
\* not family types, with the same non-empty result, a family-friendly
\* region in it
C12_Witness ==
    /\ TwoRegionCalls /\ Returned
    /\ users_preferences = previous_call.users_preferences
    /\ users_preferences # << >>
    /\ geographic_scope = previous_call.geographic_scope
    /\ trip_type = "friends_adventure"
    /\ previous_call.trip_type = "friends_vacation"
    /\ result = previous_call.result
    /\ \E i \in Entries : Get(result[i].region, "family_friendly", 0) >= 4

(***************************************************************************)
(* Helpers: the request just served by the application and its answer.     *)
(***************************************************************************)
Answered(handler, status) ==
    /\ response # EmptyDict
    /\ response.handler = handler
    /\ response.status = status

Served == requests["w1"]

Participants(t) == TRIPS[t]["participants"]

NameAt(ps, i) == ps[i]["name"]

Submitted(data) ==
    [name |-> IF "name" \in DOMAIN data THEN data["name"] ELSE None,
     environment |->
         IF "environment" \in DOMAIN data THEN data["environment"] ELSE << >>,
     style |-> IF "style" \in DOMAIN data THEN data["style"] ELSE << >>,
     activities |->
         IF "activities" \in DOMAIN data THEN data["activities"] ELSE << >>,
     budget_range |->
         IF "budget_range" \in DOMAIN data THEN data["budget_range"]
         ELSE <<50, 150>>]

(***************************************************************************)
(* C13: after every step no two participants of a trip have the same name; *)
(* a submission under a name that is present replaces that participant's   *)
(* whole record with the submitted one at the same position, the other     *)
(* participants and the count unchanged, and a submission under a new name *)
(* appends exactly one participant.                                        *)
(***************************************************************************)
C13_UniqueNames ==
    [][/\ \A t \in DOMAIN TRIPS' :
              \A i \in 1..Len(Participants(t)') :
                  \A j \in 1..Len(Participants(t)') :
                      i # j => NameAt(Participants(t)', i)
                                   # NameAt(Participants(t)', j)
       /\ (Answered("submit_preferences", 200))' =>
              LET t == requests'["w1"].trip_id
                  old == TRIPS[t]["participants"]
                  new == TRIPS'[t]["participants"]
                  rec == Submitted(requests'["w1"].data)
              IN /\ response'.body.participant_count = Len(new)
                 /\ IF \E i \in 1..Len(old) : NameAt(old, i) = rec.name
                    THEN /\ Len(new) = Len(old)
                         /\ \A i \in 1..Len(old) :
                                new[i] = IF NameAt(old, i) = rec.name
                                         THEN rec ELSE old[i]
                    ELSE new = Append(old, rec)]_vars

\* a re-submission under the name of the first of two participants: the
\* submitted record, with the defaults for what the body left out, sits at
\* the first position and the other participant is still the second
C13_Witness ==
    /\ Answered("submit_preferences", 200)
    /\ response.body.participant_count = 2
    /\ Len(Participants(Served.trip_id)) = 2
    /\ Served.data = [name |-> "Ann"]
    /\ Participants(Served.trip_id)[1] = Submitted(Served.data)
    /\ NameAt(Participants(Served.trip_id), 2) = "Bob"
    /\ Participants(Served.trip_id)[2]["environment"] = <<"beach">>

(***************************************************************************)
(* Helpers: the votes of a trip.                                           *)
(***************************************************************************)
Votes(trips, t) ==
    IF t \in DOMAIN trips /\ "votes" \in DOMAIN trips[t]
    THEN trips[t]["votes"] ELSE << >>

Voters(votes) == {votes[i].user_name : i \in 1..Len(votes)}

OneVoteEach(votes) ==
    \A i \in 1..Len(votes) : \A j \in 1..Len(votes) :
        i # j => votes[i].user_name # votes[j].user_name

RECURSIVE SumCounts(_)
SumCounts(counts) ==
    IF DOMAIN counts = {} THEN 0
    ELSE LET r == CHOOSE x \in DOMAIN counts : TRUE
         IN counts[r] + SumCounts([x \in DOMAIN counts \ {r} |-> counts[x]])

(***************************************************************************)
(* C17: after every step the vote list of a trip holds at most one vote    *)
(* per user_name.  A vote that is answered with success leaves the voter's *)
(* new vote as the last of the list and as the voter's only vote, the      *)
(* votes of the other users as they were; the answer's total_votes is the  *)
(* number of distinct voters and its vote_counts sum to total_votes.  No   *)
(* other step adds a vote.                                                 *)
(***************************************************************************)
C17_OneVotePerUser ==
    [][/\ \A t \in DOMAIN TRIPS' : OneVoteEach(Votes(TRIPS', t))
       /\ (Answered("vote_destination", 200))' =>
              LET t == requests'["w1"].trip_id
                  u == requests'["w1"].data["user_name"]
                  r == requests'["w1"].data["region_id"]
                  old == Votes(TRIPS, t)
                  new == Votes(TRIPS', t)
              IN /\ new # << >>
                 /\ new[Len(new)] = [user_name |-> u, region_id |-> r]
                 /\ \A i \in 1..Len(new) : new[i].user_name = u => i = Len(new)
                 /\ SubSeq(new, 1, Len(new) - 1)
                        = SelectSeq(old, LAMBDA v : v.user_name # u)
                 /\ response'.body.total_votes = Cardinality(Voters(new))
                 /\ response'.body.total_votes = Len(new)
                 /\ SumCounts(response'.body.vote_counts)
                        = response'.body.total_votes
                 /\ \A x \in DOMAIN response'.body.vote_counts :
                        response'.body.vote_counts[x]
                            = Cardinality({i \in 1..Len(new) :
                                               new[i].region_id = x})
       /\ ~(Answered("vote_destination", 200))' =>
              \A t \in DOMAIN TRIPS' :
                  \A i \in 1..Len(Votes(TRIPS', t)) :
                      \E j \in 1..Len(Votes(TRIPS, t)) :
                          Votes(TRIPS', t)[i] = Votes(TRIPS, t)[j]]_vars

\* two users have voted for the same region and the one who voted first in
\* the list is not the one who voted last
C17_Witness ==
    /\ Answered("vote_destination", 200)
    /\ Served.data = [user_name |-> "Ann", region_id |-> "r2"]
    /\ Votes(TRIPS, Served.trip_id)
           = <<[user_name |-> "Bob", region_id |-> "r2"],
               [user_name |-> "Ann", region_id |-> "r2"]>>
    /\ response.body.total_votes = 2
    /\ response.body.vote_counts = ("r2" :> 2)

(***************************************************************************)
(* C18 as stated: get_cities answers success (status 200) exactly when the *)
(* trip id is known, and 404 'Trip not found' exactly when it is not.      *)
(***************************************************************************)
C18_CitiesOfExistingTrip ==
    (response # EmptyDict /\ response.handler = "get_cities") =>
        /\ response.status = 200 <=> Served.trip_id \in DOMAIN TRIPS
        /\ response.status = 404 <=> Served.trip_id \notin DOMAIN TRIPS

(***************************************************************************)
(* C15 as stated: missing fields never make scoring fail: a call of        *)
(* calculate_region_match returns a result instead of raising.             *)
(***************************************************************************)
C15_NeverRaises == Called => outcome # "KeyError"

C14_NoLostUpdate ==
    (/\ DOMAIN requests = {"w1", "w2"}
     /\ \A w \in DOMAIN requests : requests[w]["pc"] = "done"
     /\ Submitted(requests["w1"].data).name
            # Submitted(requests["w2"].data).name)
        => \A w \in DOMAIN requests :
               \E i \in 1..Len(Participants(requests[w].trip_id)) :
                   Participants(requests[w].trip_id)[i]
                       = Submitted(requests[w].data)

====
